---------------------------- MODULE Spec2Model ----------------------------
(***************************************************************************)
(* A model of package gouuidv6: generation of "Version 6" UUIDs            *)
(* (NewFromTime), the process-wide generator state (lastts, clockseq,      *)
(* node, alwaysRandomizeNode, newlock), package initialisation and the     *)
(* node-management calls.                                                  *)
(*                                                                         *)
(* TLC's integers are 32 bits wide, the program's are 64, so every machine *)
(* word is a sequence of 16-bit limbs (0..65535), most significant first:  *)
(* a uint64 has 4 limbs, a uint32 has 2, and an instant (time.Time) is a   *)
(* two's-complement count of nanoseconds since the Unix epoch of 5 limbs   *)
(* (80 bits), wide enough for instants outside the int64 range of UnixNano *)
(* and for the zero time.Time.  Arithmetic wraps at the width of its       *)
(* operands, as Go's does.  A UUID is its 16 bytes.                        *)
(***************************************************************************)
EXTENDS Integers, Sequences, FiniteSets, TLC

-----------------------------------------------------------------------------
(* Machine words as limb sequences *)

Zeros(n) == [i \in 1..n |-> 0]
One(n) == [i \in 1..n |-> IF i = n THEN 1 ELSE 0]

\* a small natural number (below 2^31) as a word of w limbs
Word(n, w) ==
    [i \in 1..w |-> IF i = w THEN n % 65536 ELSE IF i = w - 1 THEN n \div 65536 ELSE 0]

\* a & b and a | b on numbers below 16, bit by bit
RECURSIVE BitsAnd(_, _)
BitsAnd(a, b) ==
    IF a = 0 \/ b = 0 THEN 0
    ELSE (IF a % 2 = 1 /\ b % 2 = 1 THEN 1 ELSE 0) + (2 * BitsAnd(a \div 2, b \div 2))

RECURSIVE BitsOr(_, _)
BitsOr(a, b) ==
    IF a = 0 THEN b
    ELSE IF b = 0 THEN a
    ELSE (IF a % 2 = 1 \/ b % 2 = 1 THEN 1 ELSE 0) + (2 * BitsOr(a \div 2, b \div 2))

NibbleAnd == [a \in 0..15 |-> [b \in 0..15 |-> BitsAnd(a, b)]]
NibbleOr == [a \in 0..15 |-> [b \in 0..15 |-> BitsOr(a, b)]]

\* a & b and a | b on limbs and bytes, four bits at a time
BitAnd(a, b) ==
    IF a = 0 \/ b = 0 THEN 0
    ELSE IF a = b THEN a
    ELSE NibbleAnd[a % 16][b % 16]
         + (16 * NibbleAnd[(a \div 16) % 16][(b \div 16) % 16])
         + (256 * NibbleAnd[(a \div 256) % 16][(b \div 256) % 16])
         + (4096 * NibbleAnd[a \div 4096][b \div 4096])

BitOr(a, b) ==
    IF a = 0 THEN b
    ELSE IF b = 0 \/ a = b THEN a
    ELSE NibbleOr[a % 16][b % 16]
         + (16 * NibbleOr[(a \div 16) % 16][(b \div 16) % 16])
         + (256 * NibbleOr[(a \div 256) % 16][(b \div 256) % 16])
         + (4096 * NibbleOr[a \div 4096][b \div 4096])

\* limb-wise & and | of two words of the same width
And(a, b) == [i \in 1..Len(a) |-> BitAnd(a[i], b[i])]
Or(a, b) == [i \in 1..Len(a) |-> BitOr(a[i], b[i])]

\* limb i of word a, zero outside it
LimbAt(a, i) == IF i >= 1 /\ i <= Len(a) THEN a[i] ELSE 0

\* a << n and a >> n (logical) at the width of a
Shl(a, n) ==
    [i \in 1..Len(a) |->
       ((LimbAt(a, i + (n \div 16)) * 2^(n % 16)) % 65536)
       + (LimbAt(a, i + (n \div 16) + 1) \div 2^(16 - (n % 16)))]
Shr(a, n) ==
    [i \in 1..Len(a) |->
       (LimbAt(a, i - (n \div 16)) \div 2^(n % 16))
       + ((LimbAt(a, i - (n \div 16) - 1) % 2^(n % 16)) * 2^(16 - (n % 16)))]

RECURSIVE AddRec(_, _, _, _)
AddRec(a, b, i, carry) ==
    IF i = 0 THEN <<>>
    ELSE LET s == a[i] + b[i] + carry
         IN  Append(AddRec(a, b, i - 1, s \div 65536), s % 65536)

\* a + b modulo 2^(16 * Len(a))
Add(a, b) == AddRec(a, b, Len(a), 0)

Not(a) == [i \in 1..Len(a) |-> 65535 - a[i]]

\* -a and a - b modulo 2^(16 * Len(a))
Neg(a) == Add(Not(a), One(Len(a)))
Sub(a, b) == Add(a, Neg(b))

RECURSIVE MulRec(_, _, _, _)
MulRec(a, m, i, carry) ==
    IF i = 0 THEN <<>>
    ELSE LET p == (a[i] * m) + carry
         IN  Append(MulRec(a, m, i - 1, p \div 65536), p % 65536)

\* a * m modulo 2^(16 * Len(a)), for a multiplier m of at most 1000
MulSmall(a, m) == MulRec(a, m, Len(a), 0)

RECURSIVE DivRec(_, _, _, _)
DivRec(a, d, i, rem) ==
    IF i > Len(a) THEN <<>>
    ELSE LET cur == (rem * 65536) + a[i]
         IN  <<cur \div d>> \o DivRec(a, d, i + 1, cur % d)

\* unsigned a / d for a divisor d of at most 1000
DivSmall(a, d) == DivRec(a, d, 1, 0)

\* unsigned comparison of two sequences of the same length, limb by limb
\* from the most significant (of two byte arrays: bytes.Compare(a, b) < 0)
RECURSIVE LtRec(_, _, _)
LtRec(a, b, i) ==
    IF i > Len(a) THEN FALSE
    ELSE IF a[i] # b[i] THEN a[i] < b[i]
    ELSE LtRec(a, b, i + 1)

Lt(a, b) == LtRec(a, b, 1)
Le(a, b) == ~Lt(b, a)

\* two's complement
IsNeg(a) == a[1] >= 32768
SLt(a, b) == IF IsNeg(a) # IsNeg(b) THEN IsNeg(a) ELSE Lt(a, b)
SLe(a, b) == ~SLt(b, a)

\* Go's signed a / d and a % d: the quotient is truncated toward zero
SDivSmall(a, d) == IF IsNeg(a) THEN Neg(DivSmall(Neg(a), d)) ELSE DivSmall(a, d)
SRemSmall(a, d) == Sub(a, MulSmall(SDivSmall(a, d), d))

\* conversions between widths: truncation, zero extension, sign extension
Low(a, n) == SubSeq(a, Len(a) - n + 1, Len(a))
ZeroExtend(a, n) == Zeros(n - Len(a)) \o a
SignExtend(a, n) == [i \in 1..(n - Len(a)) |-> IF IsNeg(a) THEN 65535 ELSE 0] \o a

-----------------------------------------------------------------------------
(* Bytes, byte slices and encoding/binary.BigEndian *)

\* b[lo:hi] of a byte slice (Go indexes from 0)
Slice(b, lo, hi) == SubSeq(b, lo + 1, hi)

\* b[i] of a byte slice or array
At(b, i) == b[i + 1]

\* bigEnd.PutUint64 / PutUint32 / PutUint16: the bytes of a word, big-endian
PutUint(w) ==
    [i \in 1..(2 * Len(w)) |->
       IF i % 2 = 1 THEN w[(i + 1) \div 2] \div 256 ELSE w[i \div 2] % 256]

\* bigEnd.Uint64 / Uint32 / Uint16: the word of the first 2n bytes of b
Uint(b, n) == [i \in 1..n |-> (256 * b[(2 * i) - 1]) + b[2 * i]]
Uint64(b) == Uint(b, 4)
Uint32(b) == Uint(b, 2)
Uint16(b) == Uint(b, 1)

\* copy(dst[at:], src): as many bytes as fit, the rest of dst unchanged
Copy(dst, at, src) ==
    [i \in 1..Len(dst) |->
       IF i > at /\ i - at <= Len(src) THEN src[i - at] ELSE dst[i]]

\* bytes.Compare(a, b) < 0 and <= 0 for two arrays of the same length
LexLess(a, b) == LtRec(a, b, 1)
LexLessEq(a, b) == ~LexLess(b, a)

-----------------------------------------------------------------------------
(* The constants of the package *)

\* const tsoff = uint64(122192928000000000) = 0x01B2_1DD2_1381_4000
tsoff == <<434, 7634, 4993, 16384>>

\* the masks and tags of NewFromTime, Time and getRandomNode
xFFFFFFFFFFFF0000 == <<65535, 65535, 65535, 0>>
xFFFFFFFFFFFFF000 == <<65535, 65535, 65535, 61440>>
x0FFF == <<0, 0, 0, 4095>>
x6000 == <<0, 0, 0, 24576>>
x8000 == <<0, 0, 0, 32768>>
x3fff == <<0, 16383>>
x0000FFFFFFFFFFFF == <<0, 65535, 65535, 65535>>
x0000010000000000 == <<0, 256, 0, 0>>

\* the zero time.Time, January 1 of year 1, 00:00:00 UTC: -62135596800 s
\* from the Unix epoch, in nanoseconds (0xFFFC_A1B2_03EB_3D1A_0000)
ZeroTime == <<65532, 41394, 1003, 15642, 0>>

\* the zero UUID
NilUUID == [i \in 1..16 |-> 0]

-----------------------------------------------------------------------------
(* package time *)

\* t.UnixNano(): int64 arithmetic on the seconds and nanoseconds of t, which
\* keeps the low 64 bits of the count when t is outside the int64 range
UnixNano(t) == Low(t, 4)

\* x / int64(time.Second) and x % int64(time.Second) on int64: 10^9 = 1000^3
DivSecond(x) ==
    IF IsNeg(x)
    THEN Neg(DivSmall(DivSmall(DivSmall(Neg(x), 1000), 1000), 1000))
    ELSE DivSmall(DivSmall(DivSmall(x, 1000), 1000), 1000)
MulSecond(x) == MulSmall(MulSmall(MulSmall(x, 1000), 1000), 1000)
RemSecond(x) == Sub(x, MulSecond(DivSecond(x)))

\* time.Unix(sec, nsec): the instant sec seconds and nsec nanoseconds after
\* the Unix epoch
TimeUnix(sec, nsec) == Add(MulSecond(SignExtend(sec, 5)), SignExtend(nsec, 5))

-----------------------------------------------------------------------------
(* The pure functions of the package *)

\* func tstime(t time.Time) uint64
tstime(t) == Add(tsoff, SDivSmall(UnixNano(t), 100))

\* func (u UUID) IsNil() bool
IsNil(u) == Or(Uint64(Slice(u, 0, 8)), Uint64(Slice(u, 8, 16))) = Zeros(4)

\* func (u UUID) Time() time.Time
Time(u) ==
    IF ~(BitAnd(At(u, 6), 240) = 96 /\ BitAnd(At(u, 8), 192) = 128)
    THEN ZeroTime
    ELSE LET hi == Uint64(Slice(u, 0, 8))
             t  == Or(And(Shr(hi, 4), xFFFFFFFFFFFFF000), And(x0FFF, hi))
             ut == MulSmall(Sub(t, tsoff), 100)
         IN  TimeUnix(DivSecond(ut), RemSecond(ut))

\* func (u UUID) Node() uint64
Node(u) == Uint64(Copy([i \in 1..16 |-> 0], 2, Slice(u, 10, 16)))

\* rand.Read(b) on 8 bytes: an error, or 8 bytes that were read
RandErr == [err |-> TRUE, b |-> [i \in 1..8 |-> 0]]
RandOk(b) == [err |-> FALSE, b |-> b]

\* func getRandomNode() uint64, given what rand.Read returns
getRandomNode(rd) ==
    IF rd.err THEN Zeros(4)
    ELSE Or(And(Uint64(Slice(rd.b, 0, 8)), x0000FFFFFFFFFFFF), x0000010000000000)

\* func getMacNode() uint64, given the hardware addresses of net.Interfaces()
RECURSIVE getMacNodeFrom(_, _)
getMacNodeFrom(hw, k) ==
    IF k > Len(hw) THEN Zeros(4)
    ELSE IF Len(hw[k]) >= 6
         THEN Or(Shl(ZeroExtend(Uint16(Slice(hw[k], 0, 2)), 4), 32),
                 ZeroExtend(Uint32(Slice(hw[k], 2, 6)), 4))
         ELSE getMacNodeFrom(hw, k + 1)

getMacNode(hw) == getMacNodeFrom(hw, 1)

-----------------------------------------------------------------------------
(* NewFromTime, statement by statement *)

\* a variant of the locked section that leaves the clock sequence alone
\* when the timestamp equals lastts
LockedSectionStrict(ls, cq, tsval) ==
    LET inc == IF Lt(tsval, ls) THEN Add(cq, One(2)) ELSE cq
    IN  [lastts |-> tsval, clockseq |-> inc, cs |-> inc]

\* lines 416-420, under newlock: the clock sequence is incremented (uint32)
\* when the clock did not advance, lastts is set, and cs is captured
LockedSection(ls, cq, tsval) ==
    LET inc == IF Le(tsval, ls) THEN Add(cq, One(2)) ELSE cq
    IN  [lastts |-> tsval, clockseq |-> inc, cs |-> inc]

\* a variant of the node resolution without the test for a stored node of 0
ResolveNodeNoZeroTest(arn, nd, rd) ==
    IF arn THEN getRandomNode(rd) ELSE nd

\* lines 430-434: the node of this identifier, from the flag and the stored
\* node as read, and from what rand.Read returns if it is called
ResolveNode(arn, nd, rd) ==
    IF arn \/ nd = Zeros(4) THEN getRandomNode(rd) ELSE nd

\* a variant of the assembly that does not set the version
AssembleNoVersion(tsval, cs, nd) ==
    LET hi == Or(And(Shl(tsval, 4), xFFFFFFFFFFFF0000), And(tsval, x0FFF))
        lo == Or(Or(Shl(x8000, 48), Shl(ZeroExtend(And(cs, x3fff), 4), 48)), nd)
    IN  PutUint(hi) \o PutUint(lo)

\* lines 426-437: the 16 bytes from the timestamp, the captured clock
\* sequence and the node
Assemble(tsval, cs, nd) ==
    LET hi == Or(Or(And(Shl(tsval, 4), xFFFFFFFFFFFF0000), And(tsval, x0FFF)), x6000)
        lo == Or(Or(Shl(x8000, 48), Shl(ZeroExtend(And(cs, x3fff), 4), 48)), nd)
    IN  PutUint(hi) \o PutUint(lo)

-----------------------------------------------------------------------------
(* Inputs *)

\* 2020-09-13T12:26:40Z, on a tick boundary
T0 == MulSecond(Word(1600000000, 5))

\* the instants handed to NewFromTime: two in one 100ns tick, the next tick,
\* and the first instant after the int64 range of UnixNano
\* (2262-04-11T23:47:16.854775808Z)
Instants == { T0, Add(T0, Word(50, 5)), Add(T0, Word(100, 5)), Shl(One(5), 63) }

\* what rand.Read can return in func init, for the clock sequence: an error,
\* or bytes (0xFFFFFFFF is the last value before the counter wraps)
SeqReads ==
    { RandErr,
      RandOk(<<255, 255, 255, 255, 255, 255, 255, 255>>),
      RandOk(<<222, 173, 18, 52, 171, 205, 239, 1>>) }

\* what rand.Read can return in getRandomNode: an error, or 8 bytes, of which
\* the first two are masked off and the third lacks the multicast bit
RandReads == { RandErr, RandOk(<<222, 173, 18, 52, 171, 205, 239, 1>>) }

\* the arguments of SetNode: 0, 123, the largest 48-bit value, and a value
\* with bits 62 and 48 set
NodeArgs ==
    { Zeros(4), Word(123, 4), x0000FFFFFFFFFFFF, <<16385, 0, 0, 123>> }

\* hardware addresses: none (loopback), 4 bytes, all-zero, Ethernet, EUI-64
HwNone == <<>>
HwShort == <<10, 0, 0, 1>>
HwZero == <<0, 0, 0, 0, 0, 0>>
HwEth0 == <<0, 17, 34, 51, 68, 85>>
HwEth1 == <<2, 66, 172, 17, 0, 2>>
HwEui64 == <<0, 17, 34, 255, 254, 51, 68, 85>>

\* what net.Interfaces() can return
IfLists ==
    { <<>>, <<HwNone>>, <<HwNone, HwShort>>, <<HwEth0>>, <<HwNone, HwEth0>>,
      <<HwEth1, HwEth0>>, <<HwShort, HwEth1>>, <<HwZero>>, <<HwZero, HwEth0>>,
      <<HwEui64>>, <<HwShort, HwZero, HwEth1>>, <<HwEth1>>, <<HwShort>>,
      <<HwEui64, HwEth0>>, <<HwNone, HwZero, HwEth0>>, <<HwEth0, HwEth1>> }

\* the host of the runs that go on after initialisation
HostIfs == <<HwNone, HwEth0>>

\* the clock readings of concurrent callers: one tick and the next
ClockReadings == { T0, Add(T0, Word(100, 5)) }

\* two instants inside one 100ns tick
TickInstants == { T0, Add(T0, Word(50, 5)) }

\* the events a run records after initialisation
MaxEvents == 3

\* the NewFromTime calls of a concurrent run
MaxCalls == 2

\* the calls of a run inside one tick: one more than the 2^14 values of the
\* clock-sequence field
MaxBurst == 16385

\* the goroutines that call NewFromTime concurrently
NumThreads == 2
Threads == 1..NumThreads

-----------------------------------------------------------------------------
(* State *)

VARIABLES
    lastts,                 \* var lastts uint64
    clockseq,               \* var clockseq uint32
    node,                   \* var node uint64
    alwaysRandomizeNode,    \* var alwaysRandomizeNode bool
    newlock,                \* var newlock sync.Mutex: 0, or the thread holding it
    phase,                  \* "boot" before func init has run, "run" after
    ifs,                    \* the hardware addresses net.Interfaces() returns
    frame,                  \* per thread: where its NewFromTime call is, its locals
    trace                   \* history: the calls made, in order, with their results

vars == <<lastts, clockseq, node, alwaysRandomizeNode, newlock, phase, ifs, frame, trace>>

globals == <<lastts, clockseq, node, alwaysRandomizeNode, newlock>>

Idle == [pc |-> "idle"]

\* the package's variables as the Go runtime zeroes them, before func init
Boot(hosts) ==
    /\ lastts = Zeros(4)
    /\ clockseq = Zeros(2)
    /\ node = Zeros(4)
    /\ alwaysRandomizeNode = FALSE
    /\ newlock = 0
    /\ phase = "boot"
    /\ ifs \in hosts
    /\ frame = [th \in Threads |-> Idle]
    /\ trace = <<>>

Init == Boot({HostIfs})

\* the calls recorded so far, besides func init
Recorded == Len(trace) - 1

AllIdle == \A th \in Threads : frame[th].pc = "idle"

\* the NewFromTime calls that went through the locked section so far
Calls ==
    LET S == {i \in DOMAIN trace : trace[i].op = "New"}
    IN  IF S = {} THEN 0
        ELSE trace[CHOOSE i \in S : \A j \in S : j <= i].n

\* history of a NewFromTime call that left the locked section as call number
\* n, having computed tsval from t when `started` calls had gone through it
Pending(t, tsval, cs, n, started) ==
    [op |-> "New", t |-> t, tsval |-> tsval, cs |-> cs, n |-> n,
     started |-> started, done |-> FALSE]

\* history of the same call once it returned: the flag and the stored node
\* it read, what rand.Read returned, and the identifier
Returned(e, arn, stored, rd) ==
    [op |-> "New", t |-> e.t, tsval |-> e.tsval, cs |-> e.cs, n |-> e.n,
     started |-> e.started, done |-> TRUE,
     arn |-> arn, stored |-> stored, rd |-> rd,
     id |-> Assemble(e.tsval, e.cs, ResolveNode(arn, stored, rd))]

\* rand.Read is called by NewFromTime only when getRandomNode is
CallsRand(rd) == alwaysRandomizeNode \/ node = Zeros(4) \/ rd = RandErr

-----------------------------------------------------------------------------
(* Operations, each a whole call *)

\* func init(), given what its rand.Read (rd1) and RandomizeNode's (rd2) return
PkgInit(rd1, rd2) ==
    /\ phase = "boot"
    /\ LET mn == getMacNode(ifs)
           n1 == IF mn # Zeros(4) THEN mn ELSE node
       IN  \* n1 is overwritten: RandomizeNode is called unconditionally
           /\ node' = getRandomNode(rd2)
           /\ clockseq' = IF ~rd1.err THEN Uint32(Slice(rd1.b, 0, 4)) ELSE clockseq
           /\ trace' = <<[op |-> "init", mac |-> n1, stored |-> node']>>
    /\ phase' = "run"
    /\ UNCHANGED <<lastts, alwaysRandomizeNode, newlock, ifs, frame>>

\* the effect of one uninterrupted NewFromTime(t) on the generator state,
\* and its history; rd is what rand.Read returns if getRandomNode is called
NewFromTimeCall(t, rd) ==
    LET tsval == tstime(t)
        ls    == LockedSection(lastts, clockseq, tsval)
    IN  [lastts |-> ls.lastts, clockseq |-> ls.clockseq,
         event |-> Returned(Pending(t, tsval, ls.cs, Calls + 1, Calls),
                            alwaysRandomizeNode, node, rd)]

\* func NewFromTime(t), run without interruption
NewFromTime(t, rd) ==
    /\ phase = "run" /\ AllIdle /\ newlock = 0
    /\ Recorded < MaxEvents
    /\ CallsRand(rd)
    /\ \E c \in {NewFromTimeCall(t, rd)} :
           /\ lastts' = c.lastts
           /\ clockseq' = c.clockseq
           /\ trace' = Append(trace, c.event)
    /\ UNCHANGED <<node, alwaysRandomizeNode, newlock, phase, ifs, frame>>

\* a variant of SetNode that leaves always-randomize mode as it is
SetNodeKeepsMode(nodeID) ==
    /\ phase = "run" /\ AllIdle
    /\ Recorded < MaxEvents
    /\ node' = nodeID
    /\ trace' = Append(trace, [op |-> "SetNode", arg |-> nodeID, stored |-> nodeID])
    /\ UNCHANGED <<lastts, clockseq, alwaysRandomizeNode, newlock, phase, ifs, frame>>

\* func SetNode(nodeID uint64)
SetNode(nodeID) ==
    /\ phase = "run" /\ AllIdle
    /\ Recorded < MaxEvents
    /\ alwaysRandomizeNode' = FALSE
    /\ node' = nodeID
    /\ trace' = Append(trace, [op |-> "SetNode", arg |-> nodeID, stored |-> nodeID])
    /\ UNCHANGED <<lastts, clockseq, newlock, phase, ifs, frame>>

\* func AlwaysRandomizeNode()
AlwaysRandomizeNode ==
    /\ phase = "run" /\ AllIdle
    /\ Recorded < MaxEvents
    /\ alwaysRandomizeNode' = TRUE
    /\ trace' = Append(trace, [op |-> "AlwaysRandomizeNode"])
    /\ UNCHANGED <<lastts, clockseq, node, newlock, phase, ifs, frame>>

\* a variant of RandomizeNode that also switches always-randomize mode on
RandomizeNodeSetsMode(rd) ==
    /\ phase = "run" /\ AllIdle
    /\ Recorded < MaxEvents
    /\ node' = getRandomNode(rd)
    /\ alwaysRandomizeNode' = TRUE
    /\ trace' = Append(trace, [op |-> "RandomizeNode", rd |-> rd, stored |-> node'])
    /\ UNCHANGED <<lastts, clockseq, newlock, phase, ifs, frame>>

\* func RandomizeNode(), given what rand.Read returns
RandomizeNode(rd) ==
    /\ phase = "run" /\ AllIdle
    /\ Recorded < MaxEvents
    /\ node' = getRandomNode(rd)
    /\ trace' = Append(trace, [op |-> "RandomizeNode", rd |-> rd, stored |-> node'])
    /\ UNCHANGED <<lastts, clockseq, alwaysRandomizeNode, newlock, phase, ifs, frame>>

\* func GetNode() uint64
GetNode == node

Next ==
    \/ \E rd1 \in SeqReads, rd2 \in RandReads : PkgInit(rd1, rd2)
    \/ \E t \in Instants, rd \in RandReads : NewFromTime(t, rd)
    \/ \E nodeID \in NodeArgs : SetNode(nodeID)
    \/ AlwaysRandomizeNode
    \/ \E rd \in RandReads : RandomizeNode(rd)

\* sequential use of the package on one host
Spec == Init /\ [][Next]_vars

\* package initialisation on any host
InitAnyHost == Boot(IfLists)
NextInit == \E rd1 \in SeqReads, rd2 \in RandReads : PkgInit(rd1, rd2)
SpecInit == InitAnyHost /\ [][NextInit]_vars

-----------------------------------------------------------------------------
(* Concurrent callers of NewFromTime, step by step *)

\* calls that computed their timestamp and have not left the locked section
Waiting == {th \in Threads : frame[th].pc \in {"lock", "locked"}}

\* line 412: tsval := tstime(t), before the lock is taken
NewFromTime_tstime(th, t) ==
    /\ phase = "run" /\ frame[th].pc = "idle"
    /\ Calls + Cardinality(Waiting) < MaxCalls
    /\ frame' = [frame EXCEPT ![th] =
                    [pc |-> "lock", t |-> t, tsval |-> tstime(t), started |-> Calls]]
    /\ UNCHANGED <<globals, phase, ifs, trace>>

\* line 414: newlock.Lock()
NewFromTime_Lock(th) ==
    /\ frame[th].pc = "lock" /\ newlock = 0
    /\ newlock' = th
    /\ frame' = [frame EXCEPT ![th].pc = "locked"]
    /\ UNCHANGED <<lastts, clockseq, node, alwaysRandomizeNode, phase, ifs, trace>>

\* lines 415-421: the locked section and newlock.Unlock()
NewFromTime_Unlock(th) ==
    /\ frame[th].pc = "locked" /\ newlock = th
    /\ \E f \in {frame[th]}, ls \in {LockedSection(lastts, clockseq, frame[th].tsval)} :
           /\ lastts' = ls.lastts
           /\ clockseq' = ls.clockseq
           /\ trace' = Append(trace, Pending(f.t, f.tsval, ls.cs, Calls + 1, f.started))
           /\ frame' = [frame EXCEPT ![th] = [pc |-> "node", k |-> Len(trace) + 1]]
    /\ newlock' = 0
    /\ UNCHANGED <<node, alwaysRandomizeNode, phase, ifs>>

\* lines 423-439: the flag and the node are read, the bytes are assembled,
\* the identifier is returned
NewFromTime_Return(th, rd) ==
    /\ frame[th].pc = "node"
    /\ CallsRand(rd)
    /\ trace' = [trace EXCEPT ![frame[th].k] = Returned(@, alwaysRandomizeNode, node, rd)]
    /\ frame' = [frame EXCEPT ![th] = Idle]
    /\ UNCHANGED <<globals, phase, ifs>>

\* SetNode called once, before the first NewFromTime
SetNodeFirst(nodeID) == Len(trace) = 1 /\ SetNode(nodeID)

NextConc ==
    \/ \E rd1 \in SeqReads : PkgInit(rd1, RandOk(<<222, 173, 18, 52, 171, 205, 239, 1>>))
    \/ \E nodeID \in NodeArgs : SetNodeFirst(nodeID)
    \/ \E th \in Threads, t \in ClockReadings : NewFromTime_tstime(th, t)
    \/ \E th \in Threads : NewFromTime_Lock(th)
    \/ \E th \in Threads : NewFromTime_Unlock(th)
    \/ \E th \in Threads, rd \in RandReads : NewFromTime_Return(th, rd)

\* goroutines calling NewFromTime concurrently, with a fixed stored node
SpecConc == Init /\ [][NextConc]_vars

-----------------------------------------------------------------------------
(* A long run of calls inside one 100ns tick *)

\* NewFromTime(t) run without interruption, the history keeping the first
\* call and the latest one only
NewFromTimeInTick(t, rd) ==
    /\ phase = "run" /\ AllIdle /\ newlock = 0
    /\ Calls < MaxBurst
    /\ CallsRand(rd)
    /\ \E c \in {NewFromTimeCall(t, rd)} :
           /\ lastts' = c.lastts
           /\ clockseq' = c.clockseq
           /\ trace' = IF Len(trace) < 3 THEN Append(trace, c.event)
                       ELSE [trace EXCEPT ![3] = c.event]
    /\ UNCHANGED <<node, alwaysRandomizeNode, newlock, phase, ifs, frame>>

NextBurst ==
    \/ PkgInit(RandErr, RandOk(<<222, 173, 18, 52, 171, 205, 239, 1>>))
    \/ \E t \in TickInstants : NewFromTimeInTick(t, RandErr)

SpecBurst == Init /\ [][NextBurst]_vars

-----------------------------------------------------------------------------
(* Reading the history and the fields of an identifier *)

News == {i \in DOMAIN trace : trace[i].op = "New" /\ trace[i].done}

LastIsNew == Len(trace) > 0 /\ trace[Len(trace)].op = "New" /\ trace[Len(trace)].done

\* only NewFromTime calls were made from event i to event j
OnlyNewsBetween(i, j) == \A k \in i..j : trace[k].op = "New"

\* the high nibble of byte 6 and the top two bits of byte 8
VersionNibble(u) == At(u, 6) \div 16
VariantBits(u) == At(u, 8) \div 64

\* the 14 bits after the variant in bytes 8-9, and the low 14 bits of a uint32
ClockSeqField(u) == ((At(u, 8) % 64) * 256) + At(u, 9)
Low14(c) == c[2] % 16384

\* a uint64 that fits in 48 bits; the multicast bit 0x010000000000 of it
Fits48(w) == w[1] = 0
HasMulticastBit(w) == (w[2] \div 256) % 2 = 1

\* the instant t lies in the int64 range of UnixNano
InUnixNanoRange(t) == SignExtend(Low(t, 4), 5) = t

\* the tick count of instant t, tsoff + floor(t / 100ns), fits in 60 bits
FloorDiv100(t) ==
    IF IsNeg(t) /\ SRemSmall(t, 100) # Zeros(5)
    THEN Sub(SDivSmall(t, 100), One(5))
    ELSE SDivSmall(t, 100)
Fits60(t) ==
    LET ticks == Add(ZeroExtend(tsoff, 5), FloorDiv100(t))
    IN  ticks[1] = 0 /\ ticks[2] < 4096

-----------------------------------------------------------------------------
(* Claims *)

\* C1 (as stated): of two NewFromTime calls made one after the other with
\* no node-management call in between, the earlier given instant t1 and the
\* later t2 >= t1, the earlier identifier is less than or equal to the later
\* under the comparison of all 16 bytes. Stated for instants in the range
\* of UnixNano only.
C1_SerialOrder ==
    \A i \in News, j \in News :
        ( /\ i < j
          /\ OnlyNewsBetween(i, j)
          /\ InUnixNanoRange(trace[i].t) /\ InUnixNanoRange(trace[j].t)
          /\ SLe(trace[i].t, trace[j].t) )
        => LexLessEq(trace[i].id, trace[j].id)

\* C2 (as stated): the identifiers NewFromTime returned are pairwise
\* distinct, however many calls were made and whatever instants they were
\* given, with a fixed stored node.
C2_PairwiseDistinct ==
    \A i \in News, j \in News : i # j => trace[i].id # trace[j].id

\* the 60-bit timestamp in bytes 0-7 of an identifier, around the version
TimestampField(u) ==
    LET hi == Uint64(Slice(u, 0, 8))
    IN  Or(And(Shr(hi, 4), xFFFFFFFFFFFFF000), And(x0FFF, hi))

\* (timestamp field, clock-sequence field) of u is at most that of v
PairLessEq(u, v) ==
    \/ Lt(TimestampField(u), TimestampField(v))
    \/ /\ TimestampField(u) = TimestampField(v)
       /\ ClockSeqField(u) <= ClockSeqField(v)

\* C3 (as stated): the identifiers returned, listed in the order in which
\* their calls went through the locked section, are non-decreasing in the
\* pair (timestamp field, clock-sequence field).
C3_LockOrder ==
    \A i \in News, j \in News :
        trace[i].n < trace[j].n => PairLessEq(trace[i].id, trace[j].id)

\* two calls that went through the locked section one right after the
\* other and returned, given instants in the range of UnixNano whose ticks
\* fit in 60 bits, with a stored node that fits in 48 bits
Consecutive(i, j) ==
    /\ i \in News /\ j \in News
    /\ trace[j].n = trace[i].n + 1
    /\ \A k \in {i, j} :
          /\ InUnixNanoRange(trace[k].t) /\ Fits60(trace[k].t)
          /\ Fits48(trace[k].stored)

\* C3 (amended): of two such calls, either the later has the greater
\* timestamp field and the same clock-sequence field, or its timestamp
\* field is less than or equal to the earlier one's and its clock-sequence
\* field is the earlier one's plus one modulo 2^14.
C3_LockOrder_Amended ==
    \A i \in DOMAIN trace, j \in DOMAIN trace :
        Consecutive(i, j) =>
            LET a == trace[i].id
                b == trace[j].id
            IN  \/ /\ Lt(TimestampField(a), TimestampField(b))
                   /\ ClockSeqField(b) = ClockSeqField(a)
                \/ /\ Le(TimestampField(b), TimestampField(a))
                   /\ ClockSeqField(b) = (ClockSeqField(a) + 1) % 16384

\* C3's case: a call read the earlier tick before another call, which read
\* the next tick, went through the locked section, and went through it
\* second; both returned, the second identifier with the smaller timestamp
C3_Witness ==
    \E i \in DOMAIN trace, j \in DOMAIN trace :
        /\ Consecutive(i, j)
        /\ trace[j].started < trace[i].n
        /\ Lt(TimestampField(trace[j].id), TimestampField(trace[i].id))

\* C4: every identifier NewFromTime returns has the high nibble of byte 6
\* equal to 6 and is not nil, and IsNil holds exactly of the 16 zero bytes.
ProbeUUIDs ==
    { NilUUID, [i \in 1..16 |-> IF i = 16 THEN 1 ELSE 0],
      [i \in 1..16 |-> IF i = 1 THEN 128 ELSE 0],
      [i \in 1..16 |-> IF i = 9 THEN 1 ELSE 0],
      [i \in 1..16 |-> IF i = 8 THEN 255 ELSE 0] }

C4_VersionAndNotNil ==
    /\ \A i \in News : VersionNibble(trace[i].id) = 6 /\ ~IsNil(trace[i].id)
    /\ \A u \in ProbeUUIDs \cup {trace[i].id : i \in News} :
           IsNil(u) <=> (\A k \in 1..16 : u[k] = 0)

\* C4's case: an identifier was generated with a node stored by SetNode
\* that has bits above the 48th set, after always-randomize mode was on
C4_Witness ==
    \E i \in News :
        /\ ~Fits48(trace[i].stored) /\ ~trace[i].arn
        /\ \E k \in 1..i : trace[k].op = "AlwaysRandomizeNode"
        /\ VersionNibble(trace[i].id) = 6

\* C5 (as stated): every identifier NewFromTime returns has the top two
\* bits of byte 8 equal to binary 10 and the low 14 bits of the captured
\* clock sequence in the rest of bytes 8-9, whatever SetNode stored.
C5_VariantAndClockSeq ==
    \A i \in News :
        /\ VariantBits(trace[i].id) = 2
        /\ ClockSeqField(trace[i].id) = Low14(trace[i].cs)

\* the node a successful rand.Read of 8 bytes gives: its low 48 bits with
\* the multicast bit set
IsDrawOf(w, rd) ==
    /\ Fits48(w) /\ HasMulticastBit(w)
    /\ w[3] = Uint64(rd.b)[3] /\ w[4] = Uint64(rd.b)[4]
    /\ w[2] \in {Uint64(rd.b)[2], Uint64(rd.b)[2] + 256}

\* C6 (as stated): after SetNode(v), with no other node-management call in
\* between, a generated identifier has Node(id) = v, and GetNode() = v.
SetNodeThenNew(i) ==
    /\ LastIsNew
    /\ i \in DOMAIN trace /\ trace[i].op = "SetNode"
    /\ OnlyNewsBetween(i + 1, Len(trace))

C6_SetNodeThenNew ==
    \A i \in DOMAIN trace :
        SetNodeThenNew(i) =>
            /\ Node(trace[Len(trace)].id) = trace[i].arg
            /\ GetNode = trace[i].arg

\* C6 (amended): after SetNode(v), with no other node-management call in
\* between, GetNode() = v; a generated identifier has the low 48 bits of v
\* as its node when v is not zero, and a per-call draw (zero when rand.Read
\* fails) when v is zero.
C6_SetNodeThenNew_Amended ==
    \A i \in DOMAIN trace :
        SetNodeThenNew(i) =>
            LET e == trace[Len(trace)]
            IN  /\ GetNode = trace[i].arg
                /\ trace[i].arg # Zeros(4) =>
                       Node(e.id) = And(trace[i].arg, x0000FFFFFFFFFFFF)
                /\ trace[i].arg = Zeros(4) =>
                       IF e.rd.err THEN Node(e.id) = Zeros(4)
                       ELSE IsDrawOf(Node(e.id), e.rd)

\* C6's case: SetNode(123) was called in always-randomize mode and an
\* identifier was generated after it
C6_Witness ==
    \E i \in DOMAIN trace :
        /\ SetNodeThenNew(i) /\ trace[i].arg = Word(123, 4)
        /\ i > 1 /\ trace[i - 1].op = "AlwaysRandomizeNode"
        /\ Node(trace[Len(trace)].id) = Word(123, 4)

\* C7 (as stated): with always-randomize mode off the node field of the
\* identifier is the stored node; with it on the field is a per-call draw
\* masked to 48 bits with the multicast bit set; the stored node is the
\* same before and after the call.
C7_NodeResolution ==
    LastIsNew =>
        LET e == trace[Len(trace)]
        IN  /\ ~e.arn => Node(e.id) = e.stored
            /\ e.arn => IsDrawOf(Node(e.id), e.rd)
            /\ GetNode = e.stored

\* C7 (amended): with the mode off and a non-zero stored node the node field
\* is the low 48 bits of the stored node; with the mode on, or a stored node
\* of zero, it is a per-call draw masked to 48 bits with the multicast bit
\* set, or zero when rand.Read fails; the stored node is the same before
\* and after the call.
C7_NodeResolution_Amended ==
    LastIsNew =>
        LET e == trace[Len(trace)]
        IN  /\ (~e.arn /\ e.stored # Zeros(4)) =>
                   Node(e.id) = And(e.stored, x0000FFFFFFFFFFFF)
            /\ (e.arn \/ e.stored = Zeros(4)) =>
                   IF e.rd.err THEN Node(e.id) = Zeros(4)
                   ELSE IsDrawOf(Node(e.id), e.rd)
            /\ GetNode = e.stored

\* C7's case: in always-randomize mode with a non-zero stored node, a call
\* drew a node that differs from the stored one
C7_Witness ==
    /\ LastIsNew
    /\ LET e == trace[Len(trace)]
       IN  e.arn /\ e.stored # Zeros(4) /\ ~e.rd.err /\ Node(e.id) # e.stored

\* the first hardware address of at least 6 bytes whose 48-bit value is not
\* zero, as a uint64; zero when there is none
UsableMacs(hw) ==
    {k \in DOMAIN hw : Len(hw[k]) >= 6 /\ \E b \in 1..6 : hw[k][b] # 0}
FirstUsableMac(hw) ==
    IF UsableMacs(hw) = {} THEN Zeros(4)
    ELSE LET k == CHOOSE m \in UsableMacs(hw) : \A o \in UsableMacs(hw) : m <= o
         IN  ZeroExtend(Uint(Slice(hw[k], 0, 6), 3), 4)

\* C8 (as stated): after func init, the stored node is the value of the
\* first usable hardware address if there is one, and otherwise a random
\* 48-bit value with the multicast bit set.
C8_InitNode ==
    (phase = "run" /\ Len(trace) = 1) =>
        IF UsableMacs(ifs) # {}
        THEN node = FirstUsableMac(ifs)
        ELSE Fits48(node) /\ HasMulticastBit(node)

\* C9: always-randomize mode is on exactly when AlwaysRandomizeNode was
\* called and SetNode was not called since (so RandomizeNode and generation
\* leave it alone), and GetNode returns what the most recent of func init,
\* SetNode and RandomizeNode stored.
Storing == {i \in DOMAIN trace : trace[i].op \in {"init", "SetNode", "RandomizeNode"}}

C9_ModeAndStoredNode ==
    phase = "run" =>
        /\ alwaysRandomizeNode <=>
               \E i \in DOMAIN trace :
                   /\ trace[i].op = "AlwaysRandomizeNode"
                   /\ \A j \in (i + 1)..Len(trace) : trace[j].op # "SetNode"
        /\ \E i \in Storing :
               /\ \A j \in Storing : j <= i
               /\ GetNode = trace[i].stored

\* C9's case: the mode was switched on, RandomizeNode re-rolled the node,
\* and an identifier was generated
C9_Witness ==
    /\ alwaysRandomizeNode
    /\ \E i, j, k \in DOMAIN trace :
           /\ i < j /\ j < k
           /\ trace[i].op = "AlwaysRandomizeNode"
           /\ trace[j].op = "RandomizeNode"
           /\ trace[k].op = "New"

\* C10 (as stated): for every instant t whose tick count fits in 60 bits,
\* Time(NewFromTime(t)) is t truncated to 100ns (a multiple of 100ns less
\* than 100ns away from t), whatever the clock sequence and the node.
C10_TimeRoundTrip ==
    \A i \in News :
        Fits60(trace[i].t) =>
            Time(trace[i].id) \in
                { MulSmall(SDivSmall(trace[i].t, 100), 100),
                  MulSmall(FloorDiv100(trace[i].t), 100) }

-----------------------------------------------------------------------------
(* Text: a string is the sequence of the codes of its characters *)

\* the lower-case hexadecimal digit of n < 16, as fmt's %x writes it
HexChar(n) == IF n < 10 THEN 48 + n ELSE 87 + n

\* the value of a hexadecimal digit of either case, -1 for any other code
HexVal(c) ==
    IF c >= 48 /\ c <= 57 THEN c - 48
    ELSE IF c >= 97 /\ c <= 102 THEN c - 87
    ELSE IF c >= 65 /\ c <= 70 THEN c - 55
    ELSE 0 - 1

\* fmt's isSpace, on the codes below 128 other than the newline
IsSpace(c) == c \in {9, 11, 12, 13, 32}

\* fmt.Sprintf("%0wx", b) of a byte slice: two digits per byte, zeros on
\* the left up to w characters
RECURSIVE HexOf(_)
HexOf(b) ==
    IF b = <<>> THEN <<>>
    ELSE <<HexChar(Head(b) \div 16), HexChar(Head(b) % 16)>> \o HexOf(Tail(b))

SprintfHex(w, b) ==
    [i \in 1..(IF w > 2 * Len(b) THEN w - (2 * Len(b)) ELSE 0) |-> 48] \o HexOf(b)

\* func (u UUID) String() string
String(u) ==
    SprintfHex(8, Slice(u, 0, 4)) \o <<45>> \o SprintfHex(4, Slice(u, 4, 6))
    \o <<45>> \o SprintfHex(4, Slice(u, 6, 8)) \o <<45>>
    \o SprintfHex(4, Slice(u, 8, 10)) \o <<45>> \o SprintfHex(12, Slice(u, 10, 16))

\* fmt's (*ss).SkipSpace in Sscanf, from position p, reading no rune at or
\* after lim: spaces are skipped, a newline is an error
RECURSIVE SkipSpace(_, _, _)
SkipSpace(us, p, lim) ==
    IF p > Len(us) \/ p >= lim THEN [err |-> FALSE, p |-> p]
    ELSE IF us[p] = 10 THEN [err |-> TRUE, p |-> p + 1]
    ELSE IF IsSpace(us[p]) THEN SkipSpace(us, p + 1, lim)
    ELSE [err |-> FALSE, p |-> p]

\* fmt's (*ss).scanNumber with the hexadecimal digits, and strconv.ParseUint
\* of the token in base 16
RECURSIVE AcceptDigits(_, _, _, _)
AcceptDigits(us, p, lim, acc) ==
    IF p <= Len(us) /\ p < lim /\ HexVal(us[p]) >= 0
    THEN AcceptDigits(us, p + 1, lim, Add(Shl(acc, 4), Word(HexVal(us[p]), 4)))
    ELSE [val |-> acc, p |-> p]

ScanFailed == [err |-> TRUE, val |-> Zeros(4), p |-> 0]

\* one verb %x of width wid in fmt's doScanf, into an unsigned integer of the
\* given size: white space is skipped first, then at most wid characters
\* are read by (*ss).scanUint, of which the first must be a digit
scanUint(us, p, wid, bitSize) ==
    LET sk == SkipSpace(us, p, Len(us) + 1)
    IN  IF sk.err THEN ScanFailed
        ELSE IF sk.p > Len(us) THEN ScanFailed
        ELSE IF HexVal(us[sk.p]) < 0 THEN ScanFailed
        ELSE LET d == AcceptDigits(us, sk.p, sk.p + wid, Zeros(4))
             IN  IF Shr(Shl(d.val, 64 - bitSize), 64 - bitSize) # d.val
                 THEN ScanFailed
                 ELSE [err |-> FALSE, val |-> d.val, p |-> d.p]

\* the verbs of the format "%08x-%04x-%04x-%04x-%012x" and their operands
ParseFormat ==
    << [wid |-> 8, bitSize |-> 32], [wid |-> 4, bitSize |-> 16],
       [wid |-> 4, bitSize |-> 16], [wid |-> 4, bitSize |-> 16],
       [wid |-> 12, bitSize |-> 64] >>

\* fmt.Sscanf(us, "%08x-%04x-%04x-%04x-%012x", ...) from verb k on: the
\* values scanned, or an error; input left after the last verb is ignored
RECURSIVE Sscanf(_, _, _, _)
Sscanf(us, p, k, vals) ==
    LET r == scanUint(us, p, ParseFormat[k].wid, ParseFormat[k].bitSize)
    IN  IF r.err THEN [err |-> TRUE, vals |-> vals]
        ELSE IF k = Len(ParseFormat)
             THEN [err |-> FALSE, vals |-> Append(vals, r.val)]
        ELSE IF r.p > Len(us) \/ us[r.p] # 45 THEN [err |-> TRUE, vals |-> vals]
        ELSE Sscanf(us, r.p + 1, k + 1, Append(vals, r.val))

\* Parse without its write of the fourth group into bytes 8-9
ParseNoFourthGroup(us) ==
    LET r == Sscanf(us, 1, 1, <<>>)
    IN  IF r.err THEN [err |-> TRUE, ret |-> NilUUID]
        ELSE LET b5 == Copy(NilUUID, 8, PutUint(r.vals[5]))
                 b3 == Copy(b5, 6, PutUint(Low(r.vals[3], 1)))
                 b2 == Copy(b3, 4, PutUint(Low(r.vals[2], 1)))
                 b1 == Copy(b2, 0, PutUint(Low(r.vals[1], 2)))
             IN  [err |-> FALSE, ret |-> b1]

\* func Parse(us string) (UUID, error)
Parse(us) ==
    LET r == Sscanf(us, 1, 1, <<>>)
    IN  IF r.err THEN [err |-> TRUE, ret |-> NilUUID]
        ELSE LET b5 == Copy(NilUUID, 8, PutUint(r.vals[5]))
                 b4 == Copy(b5, 8, PutUint(Low(r.vals[4], 1)))
                 b3 == Copy(b4, 6, PutUint(Low(r.vals[3], 1)))
                 b2 == Copy(b3, 4, PutUint(Low(r.vals[2], 1)))
                 b1 == Copy(b2, 0, PutUint(Low(r.vals[1], 2)))
             IN  [err |-> FALSE, ret |-> b1]

\* func (u UUID) Compare(to UUID) bool
Compare(u, to) == Le(Uint64(Slice(u, 0, 8)), Uint64(Slice(to, 0, 8)))

\* func (u UUID) Bytes() []byte
Bytes(u) == Slice(u, 0, 16)

\* func ParseBytes(bs []byte) (UUID, error): slicing or reading 8 bytes
\* beyond the end of bs panics; the error returned is always nil
ParseBytes(bs) ==
    IF Len(bs) < 8 \/ Len(Slice(bs, 8, Len(bs))) < 8
    THEN [panic |-> TRUE, err |-> FALSE, ret |-> NilUUID]
    ELSE LET lo == Copy(NilUUID, 8, PutUint(Uint64(Slice(bs, 8, Len(bs)))))
             hi == Copy(lo, 0, PutUint(Uint64(Slice(bs, 0, 8))))
         IN  [panic |-> FALSE, err |-> FALSE, ret |-> hi]

\* func (u *UUID) UnmarshalBinary(data []byte) error
UnmarshalBinary(u, data) ==
    [panic |-> FALSE, err |-> FALSE, ret |-> Copy(u, 0, data)]

\* func (u *UUID) Scan(value interface{}) error
Scan(u, value) ==
    IF value.type = "[]byte"
    THEN [panic |-> FALSE, err |-> FALSE, ret |-> Copy(u, 0, value.v)]
    ELSE [panic |-> FALSE, err |-> TRUE, ret |-> u]

\* Base64UUIDAlphabet: the character of a 6-bit digit, and the digit of a
\* character (-1 for a character outside the alphabet)
Base64UUIDAlphabet ==
    <<45>> \o [i \in 1..10 |-> 47 + i] \o [i \in 1..26 |-> 64 + i]
    \o <<95>> \o [i \in 1..26 |-> 96 + i]

B64Char(n) == Base64UUIDAlphabet[n + 1]

B64Val(c) ==
    IF \E n \in 0..63 : B64Char(n) = c
    THEN CHOOSE n \in 0..63 : B64Char(n) = c
    ELSE 0 - 1

\* Base64UUIDEncoding.EncodeToString: four characters for three bytes, two
\* or three characters for a last group of one or two bytes, no padding
RECURSIVE EncodeToString(_)
EncodeToString(b) ==
    IF Len(b) = 0 THEN <<>>
    ELSE IF Len(b) = 1
    THEN <<B64Char(b[1] \div 4), B64Char((b[1] % 4) * 16)>>
    ELSE IF Len(b) = 2
    THEN <<B64Char(b[1] \div 4), B64Char(((b[1] % 4) * 16) + (b[2] \div 16)),
           B64Char((b[2] % 16) * 4)>>
    ELSE <<B64Char(b[1] \div 4), B64Char(((b[1] % 4) * 16) + (b[2] \div 16)),
           B64Char(((b[2] % 16) * 4) + (b[3] \div 64)), B64Char(b[3] % 64)>>
         \o EncodeToString(SubSeq(b, 4, Len(b)))

\* Base64UUIDEncoding.DecodeString from position p with the digits q of the
\* quantum being read: carriage returns and newlines are skipped, any other
\* character outside the alphabet is an error, a last quantum of one digit
\* is an error, of two or three digits gives one or two bytes
RECURSIVE DecodeFrom(_, _, _, _)
DecodeFrom(s, p, q, out) ==
    IF p > Len(s)
    THEN IF Len(q) = 0 THEN [err |-> FALSE, b |-> out]
         ELSE IF Len(q) = 1 THEN [err |-> TRUE, b |-> out]
         ELSE IF Len(q) = 2
         THEN [err |-> FALSE, b |-> Append(out, (q[1] * 4) + (q[2] \div 16))]
         ELSE [err |-> FALSE,
               b |-> out \o <<(q[1] * 4) + (q[2] \div 16),
                              ((q[2] % 16) * 16) + (q[3] \div 4)>>]
    ELSE IF s[p] \in {10, 13} THEN DecodeFrom(s, p + 1, q, out)
    ELSE IF B64Val(s[p]) < 0 THEN [err |-> TRUE, b |-> out]
    ELSE IF Len(q) = 3
    THEN DecodeFrom(s, p + 1, <<>>,
                    out \o <<(q[1] * 4) + (q[2] \div 16),
                             ((q[2] % 16) * 16) + (q[3] \div 4),
                             ((q[3] % 4) * 64) + B64Val(s[p])>>)
    ELSE DecodeFrom(s, p + 1, Append(q, B64Val(s[p])), out)

DecodeString(s) == DecodeFrom(s, 1, <<>>, <<>>)

\* func (u UUIDB64) String() string
B64String(u) == EncodeToString(Slice(u, 0, 16))

\* func ParseB64(us string) (UUIDB64, error)
ParseB64(us) ==
    LET d == DecodeString(us)
    IN  IF d.err THEN [err |-> TRUE, ret |-> NilUUID]
        ELSE [err |-> FALSE, ret |-> Copy(NilUUID, 0, d.b)]

-----------------------------------------------------------------------------
(* Calls of the pure functions, one call or one round trip per run *)

\* 16-byte values: every pair of a byte 6 and a byte 8 below, in bytes that
\* are all 0, all 255, or those of an identifier of 2020-09-13T12:26:40Z
Byte6s == {0, 16, 96, 111, 240}
Byte8s == {0, 64, 128, 191, 192}
Fillings ==
    { [i \in 1..16 |-> 0], [i \in 1..16 |-> 255],
      <<30, 175, 91, 197, 254, 148, 96, 0, 128, 0, 1, 35, 69, 103, 137, 171>> }
Values ==
    { [i \in 1..16 |-> IF i = 7 THEN b6 ELSE IF i = 9 THEN b8 ELSE f[i]] :
          b6 \in Byte6s, b8 \in Byte8s, f \in Fillings }

\* no call was made yet
\* the identifier whose forms the malformed inputs are made from
Sample == <<30, 175, 91, 197, 254, 148, 96, 0, 128, 0, 1, 35, 69, 103, 137, 171>>

Replace(s, i, c) == [s EXCEPT ![i] = c]

\* the upper-case form of a text
ToUpper(s) == [i \in 1..Len(s) |-> IF s[i] >= 97 /\ s[i] <= 122 THEN s[i] - 32 ELSE s[i]]

\* texts handed to Parse: the canonical form, and forms with a digit
\* missing, a character that is no digit, a separator out of place, white
\* space, or characters after the last group
Texts ==
    LET S == String(Sample)
    IN  { S, String(NilUUID), ToUpper(S), <<>>,
          <<49, 45, 50, 45, 51, 45, 52, 45, 53>>,
          SubSeq(S, 1, 35), Tail(S), SubSeq(S, 1, 23),
          Replace(S, 1, 103), Replace(S, 3, 103), Replace(S, 36, 103),
          Replace(S, 9, 48), Replace(S, 8, 45), Replace(S, 24, 58),
          S \o <<48>>, S \o <<45, 122, 122>>, S \o <<32>>,
          <<32>> \o S, <<32>> \o Tail(S), Replace(S, 10, 32), <<10>> \o S, <<123>> \o S \o <<125>> }

\* byte slices handed to the binary decoders, of lengths around 16
ByteLens == {0, 7, 8, 15, 16, 17, 24}
ByteSlices ==
    { SubSeq(f \o <<1, 2, 3, 4, 5, 6, 7, 8>>, 1, n) :
        f \in {Sample, NilUUID}, n \in ByteLens }

\* the receivers of UnmarshalBinary and Scan, and the values handed to Scan
Receivers == {NilUUID, [i \in 1..16 |-> 255]}
ScanValues ==
    { [type |-> "[]byte", v |-> b] : b \in ByteSlices }
    \cup { [type |-> "string", v |-> String(Sample)], [type |-> "nil", v |-> <<>>] }

\* texts handed to ParseB64: the compact form, and forms that are shorter
\* or longer, or hold characters outside the alphabet
B64Texts ==
    LET E == B64String(Sample)
    IN  { E, B64String(NilUUID), <<>>, <<45, 45>>,
          SubSeq(E, 1, 20), SubSeq(E, 1, 21), SubSeq(E, 1, 11),
          E \o <<48>>, E \o <<48, 48>>, E \o E,
          Replace(E, 5, 61), Replace(E, 5, 43), Replace(E, 22, 32),
          E \o <<61, 61>>, E \o <<10>>, <<13, 10>> \o E, <<32>> \o E }

Fresh == phase = "boot" /\ trace = <<>>

\* what a decoder can be called on: the inputs when no call was made yet,
\* and what the encoder op returned when it was the one call made so far
Inputs(op, inputs) ==
    IF trace = <<>> THEN inputs
    ELSE IF Len(trace) = 1 /\ trace[1].op = op THEN {trace[1].ret} ELSE {}

UUID_Time(u) ==
    /\ Fresh
    /\ trace' = <<[op |-> "Time", u |-> u, ret |-> Time(u)]>>
    /\ UNCHANGED <<globals, phase, ifs, frame>>

UUID_String(u) ==
    /\ Fresh
    /\ trace' = <<[op |-> "String", u |-> u, ret |-> String(u)]>>
    /\ UNCHANGED <<globals, phase, ifs, frame>>

UUID_Bytes(u) ==
    /\ Fresh
    /\ trace' = <<[op |-> "Bytes", u |-> u, ret |-> Bytes(u)]>>
    /\ UNCHANGED <<globals, phase, ifs, frame>>

UUIDB64_String(u) ==
    /\ Fresh
    /\ trace' = <<[op |-> "B64String", u |-> u, ret |-> B64String(u)]>>
    /\ UNCHANGED <<globals, phase, ifs, frame>>

\* a decoder called on an input text or slice, or on what the encoder
\* called before it returned
Decoded(op, arg, r) ==
    /\ trace' = Append(trace, [op |-> op, arg |-> arg, ret |-> r.ret,
                               err |-> r.err, panic |-> r.panic])
    /\ UNCHANGED <<globals, phase, ifs, frame>>

NoPanic(r) == [ret |-> r.ret, err |-> r.err, panic |-> FALSE]

ParseCall(us) ==
    /\ phase = "boot" /\ us \in Inputs("String", Texts)
    /\ \E r \in {Parse(us)} : Decoded("Parse", us, NoPanic(r))

ParseBytesCall(bs) ==
    /\ phase = "boot" /\ bs \in Inputs("Bytes", ByteSlices)
    /\ \E r \in {ParseBytes(bs)} : Decoded("ParseBytes", bs, r)

UnmarshalBinaryCall(u, data) ==
    /\ Fresh
    /\ \E r \in {UnmarshalBinary(u, data)} :
          Decoded("UnmarshalBinary", [u |-> u, v |-> data], r)

ScanCall(u, value) ==
    /\ Fresh
    /\ \E r \in {Scan(u, value)} :
          Decoded("Scan", [u |-> u, type |-> value.type, v |-> value.v], r)

ParseB64Call(us) ==
    /\ phase = "boot" /\ us \in Inputs("B64String", B64Texts)
    /\ \E r \in {ParseB64(us)} : Decoded("ParseB64", us, NoPanic(r))

NextCodec ==
    \/ \E u \in Values : UUID_Time(u)
    \/ \E u \in Values : UUID_String(u)
    \/ \E u \in Values : UUID_Bytes(u)
    \/ \E u \in Values : UUIDB64_String(u)
    \/ \E us \in Texts \cup {String(u) : u \in Values} : ParseCall(us)
    \/ \E bs \in ByteSlices \cup {Bytes(u) : u \in Values} : ParseBytesCall(bs)
    \/ \E u \in Receivers, data \in ByteSlices : UnmarshalBinaryCall(u, data)
    \/ \E u \in Receivers, value \in ScanValues : ScanCall(u, value)
    \/ \E us \in B64Texts \cup {B64String(u) : u \in Values} : ParseB64Call(us)

SpecCodec == Init /\ [][NextCodec]_vars

Called(op) == Len(trace) > 0 /\ trace[Len(trace)].op = op

\* the instant the 60-bit timestamp of u stands for: that many 100ns ticks
\* after 1582-10-15, as nanoseconds from the Unix epoch
DecodedInstant(u) ==
    MulSmall(Sub(ZeroExtend(TimestampField(u), 5), ZeroExtend(tsoff, 5)), 100)

\* C11 (as stated): Time(u) is the zero instant exactly when the high nibble
\* of byte 6 is not 6 or the top two bits of byte 8 are not binary 10, and
\* for every other u it is the instant decoded from the timestamp bits.
C11_TimeOfAnyValue ==
    Called("Time") =>
        LET e == trace[1]
            valid == VersionNibble(e.u) = 6 /\ VariantBits(e.u) = 2
        IN  /\ e.ret = ZeroTime <=> ~valid
            /\ valid => e.ret = DecodedInstant(e.u)

\* C12: every value, the nil value included, comes back unchanged and
\* without error from Parse of its String, from ParseBytes of its Bytes and
\* from ParseB64 of its compact String.
C12_RoundTrip ==
    (Len(trace) = 2 /\ trace[1].op \in {"String", "Bytes", "B64String"}) =>
        /\ trace[2].ret = trace[1].u
        /\ ~trace[2].err
        /\ ~trace[2].panic

\* a value with all five groups non-zero went through String and Parse
C12_Witness ==
    /\ Len(trace) = 2
    /\ trace[1].op = "String" /\ trace[2].op = "Parse"
    /\ trace[1].u[1] = 30 /\ trace[1].u[9] = 191
    /\ trace[2].ret = trace[1].u

\* a text of exactly 36 characters: groups of 8, 4, 4, 4 and 12 hexadecimal
\* digits with a hyphen between them
IsCanonical(us) ==
    /\ Len(us) = 36
    /\ \A i \in 1..36 :
          IF i \in {9, 14, 19, 24} THEN us[i] = 45
          ELSE us[i] \in (48..57) \cup (65..70) \cup (97..102)

\* C13 (as stated): Parse returns an error, and the nil value, for every
\* text that is not five hyphen-separated groups of exactly 8, 4, 4, 4 and
\* 12 hexadecimal digits.
C13_ParseRejects ==
    (Called("Parse") /\ ~IsCanonical(trace[Len(trace)].arg)) =>
        /\ trace[Len(trace)].err
        /\ trace[Len(trace)].ret = NilUUID

\* the byte slice handed to the binary decoder of call e
InputBytes(e) == IF e.op = "ParseBytes" THEN e.arg ELSE e.arg.v

BinaryDecoded(e) ==
    \/ e.op \in {"ParseBytes", "UnmarshalBinary"}
    \/ e.op = "Scan" /\ e.arg.type = "[]byte"

\* C14 (as stated): ParseBytes, UnmarshalBinary and Scan of a byte slice
\* return an error, without aborting, for every input whose length is not
\* 16, and copy a 16-byte input verbatim.
C14_BinaryLength ==
    (Len(trace) > 0 /\ BinaryDecoded(trace[Len(trace)])) =>
        LET e == trace[Len(trace)]
        IN  IF Len(InputBytes(e)) = 16
            THEN ~e.err /\ ~e.panic /\ e.ret = InputBytes(e)
            ELSE e.err /\ ~e.panic

\* a text of characters of the alphabet only, whose 6-bit digits make
\* exactly 16 bytes
InAlphabet(us) == \A i \in 1..Len(us) : \E n \in 0..63 : Base64UUIDAlphabet[n + 1] = us[i]
DecodesTo16(us) == InAlphabet(us) /\ (6 * Len(us)) \div 8 = 16

\* C15 (as stated): ParseB64 returns an error for every text with a
\* character outside the alphabet and for every text whose decoded length
\* is not 16 bytes, and an identifier only for texts that decode to exactly
\* 16 bytes.
C15_ParseB64Rejects ==
    (Called("ParseB64") /\ ~DecodesTo16(trace[Len(trace)].arg)) =>
        /\ trace[Len(trace)].err
        /\ trace[Len(trace)].ret = NilUUID

\* s < t for two strings, byte by byte, a proper prefix being smaller
RECURSIVE StrLess(_, _)
StrLess(s, t) ==
    IF t = <<>> THEN FALSE
    ELSE IF s = <<>> THEN TRUE
    ELSE IF Head(s) # Head(t) THEN Head(s) < Head(t)
    ELSE StrLess(Tail(s), Tail(t))

Generated == {trace[i].id : i \in News}

\* C16 (as stated): two identifiers compare by their compact strings as
\* they compare by their 16 raw bytes, and for generated identifiers that
\* order is non-decreasing in Time().
C16_CompactOrder ==
    /\ \A a \in Generated \cup ProbeUUIDs, b \in Generated \cup ProbeUUIDs :
          /\ StrLess(B64String(a), B64String(b)) <=> LexLess(a, b)
          /\ B64String(a) = B64String(b) <=> a = b
    /\ \A a \in Generated, b \in Generated :
          LexLessEq(a, b) => SLe(Time(a), Time(b))

\* bytes 0-7 of a, read as a big-endian integer, are at most those of b:
\* they are equal, or a has the smaller byte where they first differ
First8LessEq(a, b) ==
    \/ \A k \in 1..8 : a[k] = b[k]
    \/ \E k \in 1..8 : a[k] < b[k] /\ \A j \in 1..(k - 1) : a[j] = b[j]

\* C17 (as stated): a.Compare(b) is true exactly when bytes 0-7 of a are at
\* most those of b, whatever bytes 8-15 hold; and of two identifiers
\* generated at instants in strictly increasing ticks, the earlier compares
\* true with the later and the later false with the earlier.
C17_Compare ==
    /\ \A a \in Generated \cup ProbeUUIDs, b \in Generated \cup ProbeUUIDs :
          Compare(a, b) <=> First8LessEq(a, b)
    /\ \A i \in News, j \in News :
          SLt(FloorDiv100(trace[i].t), FloorDiv100(trace[j].t)) =>
              /\ Compare(trace[i].id, trace[j].id)
              /\ ~Compare(trace[j].id, trace[i].id)

\* the calls that went through the locked section, returned or not
Locked == {k \in DOMAIN trace : trace[k].op = "New"}

\* C18 (as stated): of two calls that went through the locked section one
\* right after the other, the later identifier's clock-sequence field is
\* the earlier one's plus one modulo 2^14 if the later call's timestamp is
\* less than or equal to lastts (the earlier call's timestamp), and equal
\* to the earlier one's if it is greater; and lastts is the timestamp of the
\* latest call through the locked section, smaller than before or not.
C18_ClockSeqStep ==
    /\ \A i \in News, j \in News :
          trace[j].n = trace[i].n + 1 =>
              ClockSeqField(trace[j].id) =
                  IF Le(trace[j].tsval, trace[i].tsval)
                  THEN (ClockSeqField(trace[i].id) + 1) % 16384
                  ELSE ClockSeqField(trace[i].id)
    /\ \A k \in Locked :
          (\A m \in Locked : trace[m].n <= trace[k].n) => lastts = trace[k].tsval

-----------------------------------------------------------------------------
(* SetNode called while NewFromTime calls are running: the two writes of
   SetNode and the reads of NewFromTime outside the locked section, one
   step each *)

\* AlwaysRandomizeNode called once, right after func init
AlwaysRandomizeNodeFirst == Len(trace) = 1 /\ AlwaysRandomizeNode

\* the arguments of the SetNode calls made or under way
SetNodeArgs ==
    {trace[k].arg : k \in {m \in DOMAIN trace : trace[m].op = "SetNode"}}
    \cup {frame[th].nodeID : th \in {x \in Threads : frame[x].pc = "setnode"}}

\* line 525: alwaysRandomizeNode = false
SetNode_flag(th, nodeID) ==
    /\ phase = "run" /\ frame[th].pc = "idle"
    /\ SetNodeArgs = {}
    /\ alwaysRandomizeNode' = FALSE
    /\ frame' = [frame EXCEPT ![th] = [pc |-> "setnode", nodeID |-> nodeID]]
    /\ UNCHANGED <<lastts, clockseq, node, newlock, phase, ifs, trace>>

\* line 526: node = nodeID
SetNode_node(th) ==
    /\ frame[th].pc = "setnode"
    /\ node' = frame[th].nodeID
    /\ trace' = Append(trace, [op |-> "SetNode", arg |-> frame[th].nodeID,
                               stored |-> frame[th].nodeID])
    /\ frame' = [frame EXCEPT ![th] = Idle]
    /\ UNCHANGED <<lastts, clockseq, alwaysRandomizeNode, newlock, phase, ifs>>

\* history of a call that returned with the node nd, having read the flag
\* as arn, and having called getRandomNode or not
ReturnedNode(e, arn, drew, nd) ==
    [op |-> "New", t |-> e.t, tsval |-> e.tsval, cs |-> e.cs, n |-> e.n,
     started |-> e.started, done |-> TRUE,
     arn |-> arn, drew |-> drew, stored |-> nd,
     id |-> Assemble(e.tsval, e.cs, nd)]

\* line 430: alwaysRandomizeNode is read
NewFromTime_flag(th) ==
    /\ frame[th].pc = "node"
    /\ frame' = [frame EXCEPT ![th] =
                    [pc |-> IF alwaysRandomizeNode THEN "rand" ELSE "test",
                     k |-> frame[th].k, arn |-> alwaysRandomizeNode]]
    /\ UNCHANGED <<globals, phase, ifs, trace>>

\* line 430: node == 0 is tested when the flag was read as false
NewFromTime_test(th) ==
    /\ frame[th].pc = "test"
    /\ frame' = [frame EXCEPT ![th].pc = IF node = Zeros(4) THEN "rand" ELSE "use"]
    /\ UNCHANGED <<globals, phase, ifs, trace>>

\* lines 431, 436-439: lo | getRandomNode(), and the identifier is returned
NewFromTime_rand(th, rd) ==
    /\ frame[th].pc = "rand"
    /\ trace' = [trace EXCEPT ![frame[th].k] =
                    ReturnedNode(@, frame[th].arn, TRUE, getRandomNode(rd))]
    /\ frame' = [frame EXCEPT ![th] = Idle]
    /\ UNCHANGED <<globals, phase, ifs>>

\* lines 433, 436-439: lo | node, and the identifier is returned
NewFromTime_use(th) ==
    /\ frame[th].pc = "use"
    /\ trace' = [trace EXCEPT ![frame[th].k] =
                    ReturnedNode(@, frame[th].arn, FALSE, node)]
    /\ frame' = [frame EXCEPT ![th] = Idle]
    /\ UNCHANGED <<globals, phase, ifs>>

\* what rand.Read returns to RandomizeNode in func init: bytes other than
\* those the later calls read
InitNodeRead == RandOk(<<0, 0, 2, 66, 172, 17, 0, 2>>)

NextRace ==
    \/ \E rd1 \in SeqReads : PkgInit(rd1, InitNodeRead)
    \/ AlwaysRandomizeNodeFirst
    \/ \E th \in Threads, nodeID \in NodeArgs : SetNode_flag(th, nodeID)
    \/ \E th \in Threads : SetNode_node(th)
    \/ \E th \in Threads, t \in ClockReadings : NewFromTime_tstime(th, t)
    \/ \E th \in Threads : NewFromTime_Lock(th)
    \/ \E th \in Threads : NewFromTime_Unlock(th)
    \/ \E th \in Threads : NewFromTime_flag(th)
    \/ \E th \in Threads : NewFromTime_test(th)
    \/ \E th \in Threads, rd \in RandReads : NewFromTime_rand(th, rd)
    \/ \E th \in Threads : NewFromTime_use(th)

\* goroutines calling NewFromTime while one calls SetNode
SpecRace == Init /\ [][NextRace]_vars

\* C19 (as stated): when always-randomize mode was on and the stored node w
\* was not zero before a SetNode(v) with v different from w, a NewFromTime
\* call running at the same time resolves its node from the configuration
\* before SetNode or from the one after it: the identifier's node is a
\* per-call draw or v, never w.
C19_GuardedNode ==
    \A i \in News :
        LET w == trace[1].stored
        IN  ( /\ Len(trace) >= 2 /\ trace[2].op = "AlwaysRandomizeNode"
              /\ w # Zeros(4)
              /\ \A v \in SetNodeArgs : v # w )
            => /\ Node(trace[i].id) # w
               /\ \/ trace[i].drew
                  \/ \E v \in SetNodeArgs :
                        Node(trace[i].id) = And(v, x0000FFFFFFFFFFFF)

=========================================================================
